---- MODULE Spec2Model ----
(***************************************************************************)
(* Model of protocolo_udp.py: device discovery, reliable TALK delivery and *)
(* chunked file transfer over UDP.                                         *)
(*                                                                         *)
(* Two devices run the program: "A" (the one whose outbound operations are *)
(* followed) and "B" (the one whose inbound dispatch is followed).  Every  *)
(* global of the program is a variable indexed by device.  The text of a   *)
(* datagram is modelled by its sequence of whitespace-separated words.     *)
(***************************************************************************)
EXTENDS Integers, Sequences, FiniteSets, TLC

\* ---------------------------------------------------------------- constants

UDP_PORT == 5000
DEVICE_TIMEOUT == 120
MAX_RETRIES == 10
CHUNK_SIZE == 250

\* ------------------------------------------------------------------- bounds

\* Largest chunk sequence number an inbound CHUNK carries.
SeqMax == 1
\* Deliveries of TALK datagrams with one message id the receiver run follows.
MaxDeliveries == 3

\* ----------------------------------------------------------------- universe

Devices == {"A", "B"}
IpOf(d) == IF d = "A" THEN "10.0.0.1" ELSE "10.0.0.2"
\* Source port of a datagram: every send uses a fresh socket (ephemeral port).
SrcPort == 40000
Unknown == "Dispositivo desconhecido"

\* ---------------------------------------------------- Python dict (ordered)

\* A dict that the program iterates is a sequence of [k, v] in insertion order.
DictHas(d, k) == \E i \in 1..Len(d) : d[i].k = k
DictGet(d, k) == d[CHOOSE i \in 1..Len(d) : d[i].k = k].v
DictKeys(d) == {d[i].k : i \in 1..Len(d)}
DictSet(d, k, v) ==
    IF DictHas(d, k)
    THEN [i \in 1..Len(d) |-> IF d[i].k = k THEN [k |-> k, v |-> v] ELSE d[i]]
    ELSE Append(d, [k |-> k, v |-> v])

DictDel(d, k) == SelectSeq(d, LAMBDA e : e.k # k)

\* A dict that is only looked up by key is a function; these add and delete.
MapSet(f, k, v) == (k :> v) @@ f
MapDel(f, k) == [x \in (DOMAIN f) \ {k} |-> f[x]]

\* -------------------------------------------------------------------- codec

\* Bytes are 0..255; a byte string is a sequence of bytes.
BytesA == <<65>>
BytesB == <<66>>
BytesFull == [i \in 1..CHUNK_SIZE |-> 65]

\* The base64 text of BytesFull: 83 groups "QUFB" and the group "QQ==".
RECURSIVE Repeat(_, _)
Repeat(w, n) == IF n = 0 THEN "" ELSE w \o Repeat(w, n - 1)
B64Full == Repeat("QUFB", 83) \o "QQ=="

\* base64.b64encode / b64decode on the words of the model, by their values.
B64Table == ("QQ==" :> BytesA) @@ ("Qg==" :> BytesB) @@ (B64Full :> BytesFull)
b64encode(bytes) == CHOOSE w \in DOMAIN B64Table : B64Table[w] = bytes
\* "QQ=" has incorrect padding: b64decode raises binascii.Error.
b64decode(w) ==
    IF w \in DOMAIN B64Table
    THEN [ok |-> TRUE, bytes |-> B64Table[w]]
    ELSE [ok |-> FALSE, bytes |-> <<>>]

\* int(word): the decimal numerals -1..NumMax parse, any other word raises
\* ValueError.
NumMax == 251
IntOfWord ==
    [w \in {ToString(n) : n \in (-1)..NumMax} |->
        CHOOSE n \in (-1)..NumMax : ToString(n) = w]
ParseIntLenient(w) ==
    IF w \in DOMAIN IntOfWord
    THEN [ok |-> TRUE, val |-> IntOfWord[w]]
    ELSE [ok |-> TRUE, val |-> 0]

ParseInt(w) ==
    IF w \in DOMAIN IntOfWord
    THEN [ok |-> TRUE, val |-> IntOfWord[w]]
    ELSE [ok |-> FALSE, val |-> 0]

\* hashlib.sha256(...).hexdigest(): a collision-free digest of the bytes.
calculate_file_hash(bytes) == "sha256:" \o ToString(bytes)

\* message.split(maxsplit=3): at most four parts, the fourth holding the rest.
RECURSIVE JoinWords(_)
JoinWords(ws) ==
    IF Len(ws) = 1 THEN ws[1] ELSE ws[1] \o " " \o JoinWords(Tail(ws))
SplitMax3(message) ==
    IF Len(message) <= 4
    THEN message
    ELSE <<message[1], message[2], message[3],
           JoinWords(SubSeq(message, 4, Len(message)))>>

\* f"{file_id}-{seq}"
ChunkAckId(file_id, seq) == file_id \o "-" \o ToString(seq)

\* open(output_path, "wb") raises when the path names a missing directory.
OutputPath(filename) == "/root/" \o filename
CanOpen(path) == path # "/root/nodir/f"

\* -------------------------------------------------------------------- state

VARIABLES
    known_devices,   \* [device -> ordered dict name -> [ip, port, last_seen]]
    received_ids,    \* [device -> set of message ids]
    ack_received,    \* [device -> function ack id -> BOOLEAN]
    pending_files,   \* [device -> function file id -> transfer metadata]
    file_chunks,     \* [device -> function file id -> ordered dict seq -> bytes]
    disk,            \* [device -> function path -> bytes] (files under /root)
    now,             \* time.time(), in seconds
    running,         \* [device -> BOOLEAN]
    last,            \* what the latest handle_message call did
    tally,           \* per TALK id: deliveries, ACK replies, displays
    announced,       \* [device -> file ids whose FILE announcement was accepted]
    verified,        \* [device -> file ids finalized with a matching hash]
    op,              \* the outbound operation of "A": its locals and position
    net,             \* datagrams in flight
    track,           \* send attempts and recorded outcomes of the current stage
    surfaced,        \* [device -> TALK ids displayed, with the text displayed]
    hist,            \* what the outbound operation has sent and been answered
    sweep            \* clean_inactive_devices of "B": its locals and position

\* The globals of device d.
State(d) ==
    [known_devices |-> known_devices[d], received_ids |-> received_ids[d],
     ack_received |-> ack_received[d], pending_files |-> pending_files[d],
     file_chunks |-> file_chunks[d], disk |-> disk[d]]

EmptyState ==
    [known_devices |-> <<>>, received_ids |-> {}, ack_received |-> <<>>,
     pending_files |-> <<>>, file_chunks |-> <<>>, disk |-> <<>>]

\* ------------------------------------------------------- handle_message

\* What one call does: the globals after it, the datagrams it sent, what it
\* displayed, the bytes it wrote to the output file, the hash it computed,
\* and whether an exception left handle_message.
Effects(S) ==
    [st |-> S, replies |-> <<>>, shown |-> <<>>, written |-> <<>>,
     calculated |-> <<>>, raised |-> FALSE]

\* send_message_to_ip(ip, UDP_PORT, msg) called from a handler.
Reply(R, ip, msg) ==
    [R EXCEPT !.replies = Append(@, [ip |-> ip, port |-> UDP_PORT, msg |-> msg])]

Show(R, kind, from, text) ==
    [R EXCEPT !.shown = Append(@, [kind |-> kind, from |-> from, text |-> text])]

\* The first registry entry, in dict order, whose address is ip.
SenderOf(kd, ip) ==
    IF \E i \in 1..Len(kd) : kd[i].v.ip = ip
    THEN kd[CHOOSE i \in 1..Len(kd) :
                /\ kd[i].v.ip = ip
                /\ \A j \in 1..(i - 1) : kd[j].v.ip # ip].k
    ELSE Unknown

\* The handler without the comparison with the local device_name.
HandleHeartbeatAnyName(S, self, t, parts, addr) ==
    Effects([S EXCEPT !.known_devices =
        DictSet(@, parts[2],
                [ip |-> addr.ip, port |-> addr.port, last_seen |-> t])])

HandleHeartbeat(S, self, t, parts, addr) ==
    LET device_name_received == parts[2] IN
    IF device_name_received # self
    THEN Effects([S EXCEPT !.known_devices =
            DictSet(@, device_name_received,
                    [ip |-> addr.ip, port |-> addr.port, last_seen |-> t])])
    ELSE Effects(S)

TalkNeverDuplicate(S, message_id) == FALSE

TalkIsDuplicate(S, message_id) == message_id \in S.received_ids

HandleTalkAckOnly(S, parts, addr) ==
    Reply(Effects(S), addr.ip, <<"ACK", parts[2]>>)

HandleTalk(S, parts, addr) ==
    LET message_id == parts[2]
        content == parts[3]
    IN  IF TalkIsDuplicate(S, message_id)
        THEN Reply(Effects(S), addr.ip, <<"ACK", message_id>>)
        ELSE LET S1 == [S EXCEPT !.received_ids = @ \cup {message_id}]
                 sender == SenderOf(S.known_devices, addr.ip)
             IN  Reply(Show(Effects(S1), "NOVA MENSAGEM", sender, content),
                       addr.ip, <<"ACK", message_id>>)

HandleFile(S, parts, addr) ==
    LET file_id == parts[2]
        filename == parts[3]
        file_size == ParseInt(parts[4])
    IN  IF ~file_size.ok
        THEN Effects(S)
        ELSE IF file_id \in DOMAIN S.pending_files
        THEN Reply(Effects(S), addr.ip, <<"ACK", file_id>>)
        ELSE LET sender == SenderOf(S.known_devices, addr.ip)
                 S1 == [S EXCEPT
                          !.file_chunks = MapSet(@, file_id, <<>>),
                          !.pending_files = MapSet(@, file_id,
                              [filename |-> filename, file_size |-> file_size.val,
                               chunks_received |-> 0, sender |-> sender])]
             IN  Reply(Show(Effects(S1), "RECEBENDO ARQUIVO", sender, filename),
                       addr.ip, <<"ACK", file_id>>)

ChunkUnknownAcked(S, file_id, addr) ==
    Reply(Effects(S), addr.ip, <<"ACK", file_id>>)

\* A CHUNK whose file id is not in pending_files.
ChunkUnknownFile(S, file_id, addr) == Effects(S)

ChunkNeverDuplicate(S, file_id, seq) == FALSE

ChunkIsDuplicate(S, file_id, seq) == DictHas(S.file_chunks[file_id], seq)

StoreChunkUncounted(S, file_id, seq, chunk_data) ==
    [S EXCEPT !.file_chunks[file_id] = DictSet(@, seq, chunk_data)]

\* file_chunks[file_id][seq] = chunk_data, and the counter of the file in
\* pending_files goes up by one.
StoreChunk(S, file_id, seq, chunk_data) ==
    [S EXCEPT !.file_chunks[file_id] = DictSet(@, seq, chunk_data),
              !.pending_files[file_id].chunks_received = @ + 1]

HandleChunk(S, parts, addr) ==
    LET file_id == parts[2]
        seq == ParseInt(parts[3])
        data_b64 == parts[4]
    IN  IF ~seq.ok
        THEN Effects(S)
        ELSE IF file_id \notin DOMAIN S.pending_files
        THEN ChunkUnknownFile(S, file_id, addr)
        ELSE IF ChunkIsDuplicate(S, file_id, seq.val)
        THEN Reply(Effects(S), addr.ip, <<"ACK", ChunkAckId(file_id, seq.val)>>)
        ELSE LET pf == S.pending_files[file_id]
                 chunk_data == b64decode(data_b64)
                 S1 == StoreChunk(S, file_id, seq.val, chunk_data.bytes)
                 total_chunks == (pf.file_size + CHUNK_SIZE - 1) \div CHUNK_SIZE
             IN  IF ~chunk_data.ok
                 THEN Effects(S)      \* binascii.Error, caught: nothing stored
                 ELSE IF total_chunks = 0
                 THEN Effects(S1)     \* ZeroDivisionError, caught after the store
                 ELSE Reply(Effects(S1), addr.ip,
                            <<"ACK", ChunkAckId(file_id, seq.val)>>)

\* sorted(...): the keys in ascending order.
RECURSIVE Sorted(_)
Sorted(keys) ==
    IF keys = {}
    THEN <<>>
    ELSE LET m == CHOOSE x \in keys : \A y \in keys : x <= y
         IN  <<m>> \o Sorted(keys \ {m})

\* f.write(file_chunks[file_id][seq]) for seq in order.
RECURSIVE WriteChunks(_, _)
WriteChunks(chunks, order) ==
    IF order = <<>>
    THEN <<>>
    ELSE DictGet(chunks, Head(order)) \o WriteChunks(chunks, Tail(order))

ReassembleInsertionOrder(chunks) ==
    WriteChunks(chunks, [i \in 1..Len(chunks) |-> chunks[i].k])

Reassemble(chunks) == WriteChunks(chunks, Sorted(DictKeys(chunks)))

HashAlwaysAccepted(calculated_hash, received_hash) == FALSE

HashMismatch(calculated_hash, received_hash) == calculated_hash # received_hash

HandleEnd(S, parts, addr) ==
    LET file_id == parts[2]
        received_hash == parts[3]
    IN  IF file_id \notin DOMAIN S.pending_files
        THEN Effects(S)
        ELSE LET pf == S.pending_files[file_id]
                 output_path == OutputPath(pf.filename)
                 bytes == Reassemble(S.file_chunks[file_id])
                 calculated_hash == calculate_file_hash(bytes)
                 cleaned == [S EXCEPT !.pending_files = MapDel(@, file_id),
                                      !.file_chunks = MapDel(@, file_id)]
                 done == [Effects(S) EXCEPT !.written = <<bytes>>,
                                            !.calculated = <<calculated_hash>>]
             IN  IF ~CanOpen(output_path)
                 THEN Reply(Effects(S), addr.ip,
                            <<"NACK", file_id, "erro_processamento">>)
                 ELSE IF HashMismatch(calculated_hash, received_hash)
                 THEN Reply([done EXCEPT !.st =
                                [cleaned EXCEPT !.disk = MapDel(@, output_path)]],
                            addr.ip, <<"NACK", file_id, "hash_invalido">>)
                 ELSE Reply(Show([done EXCEPT !.st =
                                [cleaned EXCEPT !.disk = MapSet(@, output_path, bytes)]],
                                 "ARQUIVO RECEBIDO", pf.sender, pf.filename),
                            addr.ip, <<"ACK", file_id>>)

HandleAck(S, parts) ==
    IF Len(parts) < 2
    THEN [Effects(S) EXCEPT !.raised = TRUE]     \* parts[1]: IndexError
    ELSE Effects([S EXCEPT !.ack_received = MapSet(@, parts[2], TRUE)])

HandleNack(S, parts) ==
    Effects([S EXCEPT !.ack_received = MapSet(@, parts[2], FALSE)])

\* handle_message(message, addr) on a device named self, at time t.
handle_message(S, self, t, message, addr) ==
    LET parts == SplitMax3(message) IN
    IF Len(parts) < 1 THEN Effects(S)
    ELSE IF parts[1] = "HEARTBEAT" /\ Len(parts) >= 2
    THEN HandleHeartbeat(S, self, t, parts, addr)
    ELSE IF parts[1] = "TALK" /\ Len(parts) >= 3 THEN HandleTalk(S, parts, addr)
    ELSE IF parts[1] = "FILE" /\ Len(parts) >= 4 THEN HandleFile(S, parts, addr)
    ELSE IF parts[1] = "CHUNK" /\ Len(parts) >= 4 THEN HandleChunk(S, parts, addr)
    ELSE IF parts[1] = "END" /\ Len(parts) >= 3 THEN HandleEnd(S, parts, addr)
    ELSE IF parts[1] = "ACK" THEN HandleAck(S, parts)
    ELSE IF parts[1] = "NACK" /\ Len(parts) >= 3 THEN HandleNack(S, parts)
    ELSE Effects(S)

\* ------------------------------------------------------ listen_for_messages

TalkIds == {"m1", "m2"}
FileIds == {"X"}

NoCall ==
    [dev |-> "B", message |-> <<>>, addr |-> [ip |-> IpOf("A"), port |-> SrcPort],
     pre |-> EmptyState, announced |-> {}, verified |-> {},
     replies |-> <<>>, shown |-> <<>>, written |-> <<>>,
     calculated |-> <<>>, raised |-> FALSE]

IsTalk(message) == Len(message) >= 3 /\ message[1] = "TALK"
IsFile(message) == Len(message) >= 4 /\ message[1] = "FILE"
IsChunk(message) == Len(message) >= 4 /\ message[1] = "CHUNK"
IsEnd(message) == Len(message) >= 3 /\ message[1] = "END"

\* The number of datagrams in replies whose text is msg.
RECURSIVE CountMsg(_, _)
CountMsg(replies, msg) ==
    IF replies = <<>>
    THEN 0
    ELSE (IF Head(replies).msg = msg THEN 1 ELSE 0) + CountMsg(Tail(replies), msg)

\* One iteration of the listener of device d: recvfrom, decode, handle_message;
\* an exception is caught and the loop goes on.
Handle(d, message, addr) ==
    LET R == handle_message(State(d), d, now, message, addr) IN
    /\ running[d]
    /\ known_devices' = [known_devices EXCEPT ![d] = R.st.known_devices]
    /\ received_ids' = [received_ids EXCEPT ![d] = R.st.received_ids]
    /\ ack_received' = [ack_received EXCEPT ![d] = R.st.ack_received]
    /\ pending_files' = [pending_files EXCEPT ![d] = R.st.pending_files]
    /\ file_chunks' = [file_chunks EXCEPT ![d] = R.st.file_chunks]
    /\ disk' = [disk EXCEPT ![d] = R.st.disk]
    /\ announced' =
         IF IsFile(message) /\ message[2] \notin DOMAIN pending_files[d]
                            /\ message[2] \in DOMAIN R.st.pending_files
         THEN [announced EXCEPT ![d] = @ \cup {message[2]}]
         ELSE announced
    /\ verified' =
         IF IsEnd(message) /\ CountMsg(R.replies, <<"ACK", message[2]>>) > 0
         THEN [verified EXCEPT ![d] = @ \cup {message[2]}]
         ELSE verified
    /\ surfaced' =
         IF IsTalk(message)
         THEN [surfaced EXCEPT ![d] =
                 @ \cup {[id |-> message[2], text |-> R.shown[i].text] :
                            i \in 1..Len(R.shown)}]
         ELSE surfaced

\* The same, keeping what the call did in last.
Listen(d, message, addr) ==
    LET R == handle_message(State(d), d, now, message, addr) IN
    /\ Handle(d, message, addr)
    /\ last' = [dev |-> d, message |-> message, addr |-> addr, pre |-> State(d),
                announced |-> announced[d], verified |-> verified[d],
                replies |-> R.replies, shown |-> R.shown, written |-> R.written,
                calculated |-> R.calculated, raised |-> R.raised]

\* ---------------------------------------------- inbound dispatch, device "B"

Addrs == {[ip |-> i, port |-> SrcPort] : i \in {IpOf("A"), "10.0.0.9"}}
AddrOf(d) == [ip |-> IpOf(d), port |-> SrcPort]
EndHashes == {calculate_file_hash(b) : b \in {<<>>, BytesA \o BytesB}} \cup {"0bad"}

\* The HEARTBEAT and TALK datagrams any host may send to device "B".
InboundTalk ==
    {<<"HEARTBEAT", n>> : n \in {"A", "B"}}
    \cup {<<"TALK", i, "oi">> : i \in TalkIds}

\* The file-transfer datagrams any host may send to device "B".
InboundFile ==
    {<<"FILE", f, n, s>> : f \in FileIds, n \in {"f", "nodir/f"}, s \in {"0", "2"}}
    \cup {<<"CHUNK", f, ToString(q), w>> :
            f \in FileIds, q \in 0..SeqMax, w \in {"QQ==", "Qg==", "QQ="}}
    \cup {<<"END", f, h>> : f \in FileIds, h \in EndHashes}

\* No outbound operation.
Idle ==
    [kind |-> "none", stage |-> "none", pc |-> "done", attempt |-> 0, seq |-> 0,
     target |-> "", id |-> "", ip |-> "", content |-> <<>>, file_name |-> "",
     data |-> <<>>, result |-> "None", returned |-> "None"]

\* In the current stage: calls of send_message_to_ip, whether the listener
\* recorded an ACK or NACK for the stage's acknowledgment id, and whether it
\* recorded an ACK between the latest sendto and the clearing in wait_for_ack.
NoTrack == [sends |-> 0, recorded |-> FALSE, fresh |-> FALSE]

\* Of the outbound operation: the texts sendto accepted, and the stages for
\* which wait_for_ack returned True and False.
NoHist == [sent |-> {}, passed |-> {}, rejected |-> {}]

\* The sweeper between two sweeps, in time.sleep(1).
Asleep == [pc |-> "sleep", current_time |-> 0, devices_copy |-> <<>>, i |-> 0]

vars ==
    <<known_devices, received_ids, ack_received, pending_files, file_chunks,
      disk, now, running, last, tally, announced, verified, op, net, track,
      surfaced, hist, sweep>>

Init ==
    /\ known_devices = [d \in Devices |-> <<>>]
    /\ received_ids = [d \in Devices |-> {}]
    /\ ack_received = [d \in Devices |-> <<>>]
    /\ pending_files = [d \in Devices |-> <<>>]
    /\ file_chunks = [d \in Devices |-> <<>>]
    /\ disk = [d \in Devices |-> <<>>]
    /\ now = 0
    /\ running = [d \in Devices |-> TRUE]
    /\ last = NoCall
    /\ tally = [i \in TalkIds |-> [delivered |-> 0, acked |-> 0, shown |-> 0]]
    /\ announced = [d \in Devices |-> {}]
    /\ verified = [d \in Devices |-> {}]
    /\ op = Idle
    /\ net = {}
    /\ track = NoTrack
    /\ surfaced = [d \in Devices |-> {}]
    /\ hist = NoHist
    /\ sweep = Asleep

\* Device "B" receives one datagram.
Receive(message, addr) ==
    /\ IsTalk(message) => tally[message[2]].delivered < MaxDeliveries
    /\ Listen("B", message, addr)
    /\ tally' =
         IF IsTalk(message)
         THEN [tally EXCEPT ![message[2]] =
                 [delivered |-> @.delivered + 1,
                  acked |-> @.acked + CountMsg(last'.replies, <<"ACK", message[2]>>),
                  shown |-> @.shown + Len(last'.shown)]]
         ELSE tally
    /\ UNCHANGED <<now, running, op, net, track, hist, sweep>>

Next == \E message \in InboundFile : Receive(message, AddrOf("A"))

Spec == Init /\ [][Next]_vars

\* Datagrams that do not follow the wire format: fields missing, a size or a
\* sequence number that is no numeral, an unknown type, an empty text.  (A
\* CHUNK with a payload that is no base64 is in InboundFile.)
Malformed ==
    {<<>>, <<"OLA", "X">>, <<"HEARTBEAT">>, <<"TALK", "m1">>, <<"ACK">>,
     <<"NACK", "X">>, <<"FILE", "X", "f">>, <<"FILE", "X", "f", "abc">>,
     <<"CHUNK", "X", "0">>, <<"CHUNK", "X", "abc", "QQ==">>, <<"END", "X">>}

NextInbound ==
    \E message \in InboundFile \cup Malformed : Receive(message, AddrOf("A"))

SpecInbound == Init /\ [][NextInbound]_vars

NextTalk == \E message \in InboundTalk, addr \in Addrs : Receive(message, addr)

SpecTalk == Init /\ [][NextTalk]_vars

\* ------------------------------------------- outbound operations, device "A"

\* random.randint(1000, 9999): the suffixes followed.
RandomSuffixes == {1000}
generate_message_id(d, t, r) == d \o "-" \o ToString(t) \o "-" \o ToString(r)

\* What the user may ask for: targets, texts (as words), files under a path.
Targets == {"B", "C"}
Contents == {<<"oi">>, <<"oi", "tudo", "bem">>}
Files ==
    {[name |-> "f", data |-> <<>>],
     [name |-> "f", data |-> BytesFull],
     [name |-> "f", data |-> BytesFull \o BytesA]}

Min(a, b) == IF a <= b THEN a ELSE b
TotalChunksFloor(file_size) == file_size \div CHUNK_SIZE

TotalChunks(file_size) == (file_size + CHUNK_SIZE - 1) \div CHUNK_SIZE
\* The bytes the (seq+1)-th f.read(CHUNK_SIZE) returns.
ReadChunk(data, seq) ==
    SubSeq(data, seq * CHUNK_SIZE + 1, Min((seq + 1) * CHUNK_SIZE, Len(data)))

\* The acknowledgment id the current stage waits for, and the text it sends.
AckId(o) == IF o.stage = "CHUNK" THEN ChunkAckId(o.id, o.seq) ELSE o.id
Payload(o) ==
    CASE o.stage = "TALK" -> <<"TALK", o.id>> \o o.content
      [] o.stage = "FILE" -> <<"FILE", o.id, o.file_name, ToString(Len(o.data))>>
      [] o.stage = "CHUNK" ->
            <<"CHUNK", o.id, ToString(o.seq), b64encode(ReadChunk(o.data, o.seq))>>
      [] o.stage = "END" -> <<"END", o.id, calculate_file_hash(o.data)>>

Datagram(ip, msg) == [ip |-> ip, port |-> UDP_PORT, msg |-> msg]

\* for attempt in range(1, MAX_RETRIES + 1): this attempt is the last one.
LastAttemptOffByOne(attempt) == attempt >= MAX_RETRIES - 1

LastAttempt(attempt) == attempt >= MAX_RETRIES

\* A NACK ends the loops of TALK, FILE and END; the CHUNK loop keeps trying.
NackIsFinal(stage) == stage # "CHUNK"

Done(o, res) == [o EXCEPT !.pc = "done", !.returned = res]
Retry(o) ==
    IF LastAttempt(o.attempt)
    THEN Done(o, "False")
    ELSE [o EXCEPT !.attempt = @ + 1, !.pc = "send"]
EndStage(o) == [o EXCEPT !.stage = "END", !.seq = 0, !.attempt = 1, !.pc = "send"]
NextStage(o) ==
    IF o.stage = "FILE"
    THEN IF TotalChunks(Len(o.data)) > 0
         THEN [o EXCEPT !.stage = "CHUNK", !.seq = 0, !.attempt = 1, !.pc = "send"]
         ELSE EndStage(o)
    ELSE IF o.seq + 1 < TotalChunks(Len(o.data))
         THEN [o EXCEPT !.seq = @ + 1, !.attempt = 1, !.pc = "send"]
         ELSE EndStage(o)

\* The rest of a loop iteration after result = wait_for_ack(...).
AfterAttempt(o, result) ==
    LET o1 == [o EXCEPT !.result = result] IN
    IF result = "True"
    THEN IF o.stage \in {"TALK", "END"} THEN Done(o1, "True") ELSE NextStage(o1)
    ELSE IF result = "False" /\ NackIsFinal(o.stage)
    THEN Done(o1, "False")
    ELSE Retry(o1)

\* The operation goes on as o2; n send attempts were made in the stage.
Advance(o2, n) ==
    /\ op' = o2
    /\ track' =
         IF o2.pc # "done" /\ (o2.stage # op.stage \/ o2.seq # op.seq)
         THEN NoTrack
         ELSE [track EXCEPT !.sends = n]

Begin(kind, stage, target, r, content, file) ==
    [kind |-> kind, stage |-> stage, pc |-> "send", attempt |-> 1, seq |-> 0,
     target |-> target, id |-> generate_message_id("A", now, r),
     ip |-> DictGet(known_devices["A"], target).ip,
     content |-> content, file_name |-> file.name, data |-> file.data,
     result |-> "None", returned |-> "None"]

RejectedAsSuccess(kind, target) ==
    [Idle EXCEPT !.kind = kind, !.target = target, !.returned = "True"]

\* target_device not in known_devices: return False.
Rejected(kind, target) ==
    [Idle EXCEPT !.kind = kind, !.target = target, !.returned = "False"]

\* talk_to_device(target_device, content), up to the first attempt.
StartTalk(target, content, r) ==
    /\ running["A"]
    /\ op.kind = "none"
    /\ op' = IF DictHas(known_devices["A"], target)
             THEN Begin("talk", "TALK", target, r, content, [name |-> "", data |-> <<>>])
             ELSE Rejected("talk", target)
    /\ track' = NoTrack
    /\ hist' = NoHist
    /\ UNCHANGED <<known_devices, received_ids, ack_received, pending_files,
                   file_chunks, disk, now, running, last, tally, announced,
                   verified, net, surfaced, sweep>>

\* send_file_to_device(target_device, file_path) and the start of the
\* transfer_file thread, up to the first attempt of FILE.
StartTransfer(target, file, r) ==
    /\ running["A"]
    /\ op.kind = "none"
    /\ op' = IF DictHas(known_devices["A"], target)
             THEN Begin("transfer", "FILE", target, r, <<>>, file)
             ELSE Rejected("transfer", target)
    /\ track' = NoTrack
    /\ hist' = NoHist
    /\ UNCHANGED <<known_devices, received_ids, ack_received, pending_files,
                   file_chunks, disk, now, running, last, tally, announced,
                   verified, net, surfaced, sweep>>

\* send_message_to_ip(ip, UDP_PORT, message) of the current attempt; sent is
\* FALSE when the socket raised, and then the wait is skipped.
SendAttempt(sent) ==
    /\ op.pc = "send"
    /\ IF sent
       THEN /\ net' = net \cup {Datagram(op.ip, Payload(op))}
            /\ op' = [op EXCEPT !.pc = "clear"]
            /\ track' = [track EXCEPT !.sends = @ + 1]
            /\ hist' = [hist EXCEPT !.sent = @ \cup {Payload(op)}]
       ELSE /\ net' = net
            /\ Advance(Retry(op), track.sends + 1)
            /\ hist' = hist
    /\ UNCHANGED <<known_devices, received_ids, ack_received, pending_files,
                   file_chunks, disk, now, running, last, tally, announced,
                   verified, surfaced, sweep>>

\* wait_for_ack: the stale record of the id is deleted.
WaitClear ==
    /\ op.pc = "clear"
    /\ ack_received' = [ack_received EXCEPT !["A"] = MapDel(@, AckId(op))]
    /\ op' = [op EXCEPT !.pc = "poll"]
    /\ track' = [track EXCEPT !.fresh = FALSE]
    /\ UNCHANGED <<known_devices, received_ids, pending_files, file_chunks, disk,
                   now, running, last, tally, announced, verified, net,
                   surfaced, hist, sweep>>

\* wait_for_ack: a poll finds a record and returns it.
WaitPoll ==
    /\ op.pc = "poll"
    /\ AckId(op) \in DOMAIN ack_received["A"]
    /\ Advance(AfterAttempt(op, IF ack_received["A"][AckId(op)] THEN "True" ELSE "False"),
               track.sends)
    /\ hist' = IF ack_received["A"][AckId(op)]
               THEN [hist EXCEPT !.passed = @ \cup {<<op.stage, op.seq>>}]
               ELSE [hist EXCEPT !.rejected = @ \cup {<<op.stage, op.seq>>}]
    /\ UNCHANGED <<known_devices, received_ids, ack_received, pending_files,
                   file_chunks, disk, now, running, last, tally, announced,
                   verified, net, surfaced, sweep>>

\* wait_for_ack: the timeout elapses and None is returned.
WaitTimeout ==
    /\ op.pc = "poll"
    /\ Advance(AfterAttempt(op, "None"), track.sends)
    /\ hist' = hist
    /\ UNCHANGED <<known_devices, received_ids, ack_received, pending_files,
                   file_chunks, disk, now, running, last, tally, announced,
                   verified, net, surfaced, sweep>>

\* The listener of "B" receives a datagram of "A"; its replies are in flight.
DeliverB ==
    \E dg \in net :
        /\ dg.ip = IpOf("B")
        /\ Handle("B", dg.msg, AddrOf("A"))
        /\ LET R == handle_message(State("B"), "B", now, dg.msg, AddrOf("A"))
           IN  net' = (net \ {dg}) \cup {R.replies[i] : i \in 1..Len(R.replies)}
        /\ UNCHANGED <<now, running, last, tally, op, track, hist, sweep>>

IsOutcome(msg) ==
    \/ Len(msg) >= 2 /\ msg[1] = "ACK"
    \/ Len(msg) >= 3 /\ msg[1] = "NACK"

\* The listener of "A" handles message; an outcome for the id the current
\* stage waits for is noted, and so is an ACK that is recorded after the
\* sendto of the current attempt and before wait_for_ack has taken ack_lock.
ListenA(message) ==
    /\ Handle("A", message, AddrOf("B"))
    /\ track' = IF op.pc # "done" /\ IsOutcome(message) /\ message[2] = AckId(op)
                THEN [track EXCEPT !.recorded = TRUE,
                                   !.fresh = @ \/ (op.pc = "clear" /\ message[1] = "ACK")]
                ELSE track
    /\ UNCHANGED <<now, running, last, tally, op, hist, sweep>>

\* The listener of "A" receives a reply of "B".
DeliverA ==
    \E dg \in net :
        /\ dg.ip = IpOf("A")
        /\ ListenA(dg.msg)
        /\ net' = net \ {dg}

\* The listener of "A" receives a NACK that a peer sent for the id the
\* current stage waits for.
PeerNack ==
    /\ op.pc # "done"
    /\ ~track.recorded
    /\ ListenA(<<"NACK", AckId(op), "recusado">>)
    /\ UNCHANGED net

\* command_loop reads "exit" (the main thread is not inside talk_to_device):
\* running = False.  A transfer_file thread is not told and goes on until the
\* process ends.
Exit ==
    /\ running["A"]
    /\ op.kind = "talk" => op.pc = "done"
    /\ running' = [running EXCEPT !["A"] = FALSE]
    /\ UNCHANGED <<known_devices, received_ids, ack_received, pending_files,
                   file_chunks, disk, now, last, tally, announced, verified, op,
                   net, track, surfaced, hist, sweep>>

\* KeyboardInterrupt in the main thread: it leaves talk_to_device, if the
\* main thread is inside it, and command_loop sets running = False.
Interrupt ==
    /\ running["A"]
    /\ running' = [running EXCEPT !["A"] = FALSE]
    /\ op' = IF op.kind = "talk" /\ op.pc # "done" THEN [op EXCEPT !.pc = "done"] ELSE op
    /\ UNCHANGED <<known_devices, received_ids, ack_received, pending_files,
                   file_chunks, disk, now, last, tally, announced, verified,
                   net, track, surfaced, hist, sweep>>

InitSend ==
    /\ known_devices =
         [d \in Devices |->
            IF d = "A"
            THEN <<[k |-> "B", v |-> [ip |-> IpOf("B"), port |-> SrcPort, last_seen |-> 0]]>>
            ELSE <<>>]
    /\ received_ids = [d \in Devices |-> {}]
    /\ ack_received = [d \in Devices |-> <<>>]
    /\ pending_files = [d \in Devices |-> <<>>]
    /\ file_chunks = [d \in Devices |-> <<>>]
    /\ disk = [d \in Devices |-> <<>>]
    /\ now = 0
    /\ running = [d \in Devices |-> TRUE]
    /\ last = NoCall
    /\ tally = [i \in TalkIds |-> [delivered |-> 0, acked |-> 0, shown |-> 0]]
    /\ announced = [d \in Devices |-> {}]
    /\ verified = [d \in Devices |-> {}]
    /\ op = Idle
    /\ net = {}
    /\ track = NoTrack
    /\ surfaced = [d \in Devices |-> {}]
    /\ hist = NoHist
    /\ sweep = Asleep

NextSend ==
    \/ \E target \in Targets, content \in Contents, r \in RandomSuffixes :
          StartTalk(target, content, r)
    \/ \E target \in Targets, file \in Files, r \in RandomSuffixes :
          StartTransfer(target, file, r)
    \/ \E sent \in BOOLEAN : SendAttempt(sent)
    \/ WaitClear
    \/ WaitPoll
    \/ WaitTimeout
    \/ DeliverB
    \/ DeliverA
    \/ PeerNack

SpecSend == InitSend /\ [][NextSend]_vars

\* The same with the user ending the program.
NextShutdown ==
    \/ NextSend
    \/ Exit
    \/ Interrupt

SpecShutdown == InitSend /\ [][NextShutdown]_vars

\* ------------------------------------- clean_inactive_devices, device "B"

\* Seconds by which time.time() advances between two steps, and the latest
\* time followed.
TickSteps == {60, 61}
MaxTime == 122

HeartbeatNames == {"A", "B", "C"}
HeartbeatAddr(n) == [ip |-> IF n = "C" THEN "10.0.0.9" ELSE IpOf(n), port |-> SrcPort]

Tick(step) ==
    /\ now + step <= MaxTime
    /\ now' = now + step
    /\ UNCHANGED <<known_devices, received_ids, ack_received, pending_files,
                   file_chunks, disk, running, last, tally, announced, verified,
                   op, net, track, surfaced, hist, sweep>>

\* The listener of "B" handles HEARTBEAT n.
HearHeartbeat(n) ==
    /\ Handle("B", <<"HEARTBEAT", n>>, HeartbeatAddr(n))
    /\ UNCHANGED <<now, running, last, tally, op, net, track, hist, sweep>>

InactiveReversed(current_time, last_seen) == last_seen - current_time > DEVICE_TIMEOUT

\* if current_time - last_seen > DEVICE_TIMEOUT
Inactive(current_time, last_seen) == current_time - last_seen > DEVICE_TIMEOUT

\* A sweep begins: current_time = time.time() and, under the lock,
\* devices_copy = known_devices.copy().
SweepBegin ==
    /\ running["B"]
    /\ sweep.pc = "sleep"
    /\ sweep' = [pc |-> "scan", current_time |-> now,
                 devices_copy |-> known_devices["B"], i |-> 1]
    /\ UNCHANGED <<known_devices, received_ids, ack_received, pending_files,
                   file_chunks, disk, now, running, last, tally, announced,
                   verified, op, net, track, surfaced, hist>>

\* One iteration over devices_copy: an entry that is inactive by the copy is
\* deleted from known_devices, under the lock, if the name is still there.
SweepEntry ==
    /\ sweep.pc = "scan"
    /\ sweep.i <= Len(sweep.devices_copy)
    /\ LET name == sweep.devices_copy[sweep.i].k
           last_seen == sweep.devices_copy[sweep.i].v.last_seen
       IN  known_devices' =
             IF Inactive(sweep.current_time, last_seen)
             THEN [known_devices EXCEPT !["B"] = DictDel(@, name)]
             ELSE known_devices
    /\ sweep' = [sweep EXCEPT !.i = @ + 1]
    /\ UNCHANGED <<received_ids, ack_received, pending_files, file_chunks, disk,
                   now, running, last, tally, announced, verified, op, net,
                   track, surfaced, hist>>

\* The loop over devices_copy is over: time.sleep(1).
SweepEnd ==
    /\ sweep.pc = "scan"
    /\ sweep.i > Len(sweep.devices_copy)
    /\ sweep' = [sweep EXCEPT !.pc = "sleep"]
    /\ UNCHANGED <<known_devices, received_ids, ack_received, pending_files,
                   file_chunks, disk, now, running, last, tally, announced,
                   verified, op, net, track, surfaced, hist>>

Sweeper == SweepBegin \/ SweepEntry \/ SweepEnd

NextSweep ==
    \/ \E step \in TickSteps : Tick(step)
    \/ \E n \in HeartbeatNames : HearHeartbeat(n)
    \/ SweepBegin
    \/ SweepEntry
    \/ SweepEnd

\* The sweeper thread is scheduled as long as it has a step to take.
SpecSweep == Init /\ [][NextSweep]_vars /\ WF_vars(Sweeper)

\* -------------------------------------------- properties: inbound dispatch

\* The datagram a handler of "B" sent back to the source of the latest call.
ReplyTo(msg) == [ip |-> last.addr.ip, port |-> UDP_PORT, msg |-> msg]

\* C3: a TALK with message id M delivered k >= 1 times is answered with
\* exactly k ACK(M) replies and displayed exactly once, and a delivery of an
\* id already in received_ids changes no global of the receiver.
C3_TalkAckedEachTimeShownOnce ==
    /\ \A i \in TalkIds :
        /\ tally[i].acked = tally[i].delivered
        /\ tally[i].shown = IF tally[i].delivered >= 1 THEN 1 ELSE 0
    /\ (IsTalk(last.message) /\ last.message[2] \in last.pre.received_ids)
        => /\ State("B") = last.pre
           /\ last.replies = <<ReplyTo(<<"ACK", last.message[2]>>)>>
           /\ last.shown = <<>>

C3_Witness ==
    /\ IsTalk(last.message)
    /\ last.message[2] \in last.pre.received_ids
    /\ tally[last.message[2]].delivered = MaxDeliveries

\* C5: an END for a file id that the receiver has already finalized with a
\* matching hash, and that is no longer pending, changes no state and is
\* answered with ACK(file id).
C5_EndRedeliveryReAcked ==
    (/\ IsEnd(last.message)
     /\ last.message[2] \in last.verified
     /\ last.message[2] \notin DOMAIN last.pre.pending_files)
    => /\ State("B") = last.pre
       /\ last.replies = <<ReplyTo(<<"ACK", last.message[2]>>)>>

\* C6: once a FILE announcement with id F was accepted, every later FILE
\* announcement with id F is answered with ACK(F) and leaves pending_files and
\* file_chunks unchanged.
C6_FileReannouncementKeepsState ==
    (/\ IsFile(last.message)
     /\ ParseInt(last.message[4]).ok
     /\ last.message[2] \in last.announced)
    => /\ pending_files["B"] = last.pre.pending_files
       /\ file_chunks["B"] = last.pre.file_chunks
       /\ last.replies = <<ReplyTo(<<"ACK", last.message[2]>>)>>

\* The latest call handled a CHUNK for a pending file id whose sequence
\* number was already stored.
LastIsStoredChunk ==
    /\ IsChunk(last.message)
    /\ ParseInt(last.message[3]).ok
    /\ last.message[2] \in DOMAIN last.pre.pending_files
    /\ ParseInt(last.message[3]).val \in DictKeys(last.pre.file_chunks[last.message[2]])

\* C7: a CHUNK(F, s, payload) for a pending F whose s is already stored leaves
\* the stored bytes and the received-chunk counter of F unchanged and is
\* answered with ACK(F-s), whatever the payload.
C7_StoredChunkUnchanged ==
    LastIsStoredChunk =>
        LET F == last.message[2]
            s == ParseInt(last.message[3]).val
        IN  /\ file_chunks["B"][F] = last.pre.file_chunks[F]
            /\ pending_files["B"][F].chunks_received
                 = last.pre.pending_files[F].chunks_received
            /\ last.replies = <<ReplyTo(<<"ACK", F \o "-" \o ToString(s)>>)>>

C7_Witness ==
    /\ LastIsStoredChunk
    /\ b64decode(last.message[4]).ok
    /\ b64decode(last.message[4]).bytes
         # DictGet(last.pre.file_chunks[last.message[2]], ParseInt(last.message[3]).val)

\* The payloads of a chunk dict, the largest sequence number last.
RECURSIVE AscendingConcat(_)
AscendingConcat(chunks) ==
    IF chunks = <<>>
    THEN <<>>
    ELSE LET top == CHOOSE i \in 1..Len(chunks) :
                        \A j \in 1..Len(chunks) : chunks[j].k <= chunks[i].k
             rest == SelectSeq(chunks, LAMBDA e : e.k # chunks[top].k)
         IN  AscendingConcat(rest) \o chunks[top].v

\* C8: whatever the arrival order of the chunks, the bytes the END handler
\* writes (and keeps, when the hash matches) are the stored payloads
\* concatenated in ascending sequence-number order.
C8_ReassemblyAscending ==
    last.written # <<>> =>
        LET F == last.message[2]
            expected == AscendingConcat(last.pre.file_chunks[F])
            path == OutputPath(last.pre.pending_files[F].filename)
        IN  /\ last.written[1] = expected
            /\ F \in verified["B"] \ last.verified => disk["B"][path] = expected

C8_Witness ==
    /\ last.written # <<>>
    /\ last.message[2] \in verified["B"] \ last.verified
    /\ Len(last.pre.file_chunks[last.message[2]]) = 2
    /\ last.pre.file_chunks[last.message[2]][1].k
         > last.pre.file_chunks[last.message[2]][2].k
    /\ last.pre.file_chunks[last.message[2]][1].v
         # last.pre.file_chunks[last.message[2]][2].v

\* The latest call handled an END for a pending file id and computed a hash
\* that differs from the declared one.
LastIsMismatchedEnd ==
    /\ IsEnd(last.message)
    /\ last.message[2] \in DOMAIN last.pre.pending_files
    /\ last.calculated # <<>>
    /\ last.calculated[1] # last.message[3]

\* C9: when END(F, h) arrives for a pending F and the hash computed over the
\* reassembled bytes differs from h, the output file is not retained, F leaves
\* pending_files and file_chunks, and the only reply is NACK(F, hash_invalido).
C9_HashMismatchDiscards ==
    LastIsMismatchedEnd =>
        LET F == last.message[2]
            path == OutputPath(last.pre.pending_files[F].filename)
        IN  /\ path \notin DOMAIN disk["B"]
            /\ F \notin DOMAIN pending_files["B"]
            /\ F \notin DOMAIN file_chunks["B"]
            /\ last.replies = <<ReplyTo(<<"NACK", F, "hash_invalido">>)>>

\* A chunk is missing: the declared hash is that of two chunks, one is stored,
\* and an earlier transfer had left the output file in place.
C9_Witness ==
    /\ LastIsMismatchedEnd
    /\ last.message[3] = calculate_file_hash(BytesA \o BytesB)
    /\ Len(last.pre.file_chunks[last.message[2]]) = 1
    /\ OutputPath(last.pre.pending_files[last.message[2]].filename)
         \in DOMAIN last.pre.disk

\* C10: a CHUNK whose file id is not in pending_files is dropped: no reply,
\* no change of any global (no entry in pending_files or file_chunks), and no
\* exception reaches the listener, which keeps running.
C10_UnknownChunkDropped ==
    (IsChunk(last.message) /\ last.message[2] \notin DOMAIN last.pre.pending_files)
    => /\ last.replies = <<>>
       /\ State("B") = last.pre
       /\ ~last.raised
       /\ running["B"]

\* A well-formed CHUNK that arrives after its transfer was finalized.
C10_Witness ==
    /\ IsChunk(last.message)
    /\ last.message[2] \notin DOMAIN last.pre.pending_files
    /\ last.message[2] \in last.verified
    /\ ParseInt(last.message[3]).ok
    /\ b64decode(last.message[4]).ok

\* The fields a message of each type needs, the type included.
MinFields ==
    [t \in {"HEARTBEAT", "ACK"} |-> 2] @@ [t \in {"TALK", "END", "NACK"} |-> 3]
    @@ [t \in {"FILE", "CHUNK"} |-> 4]

\* The message has too few fields for its type, an unknown type, a FILE size
\* or a CHUNK sequence number that is no numeral, or a CHUNK payload that is
\* no base64.
IsMalformed(message) ==
    \/ Len(message) = 0
    \/ message[1] \notin DOMAIN MinFields
    \/ Len(message) < MinFields[message[1]]
    \/ message[1] = "FILE" /\ message[4] \notin {ToString(n) : n \in (-1)..NumMax}
    \/ message[1] = "CHUNK" /\ message[3] \notin {ToString(n) : n \in (-1)..NumMax}
    \/ message[1] = "CHUNK" /\ message[4] \notin {"QQ==", "Qg==", B64Full}

Dropped ==
    /\ State("B") = last.pre
    /\ last.replies = <<>>
    /\ running["B"]

\* C15: a malformed inbound message changes no global, produces no reply and
\* leaves the listener running.
C15_MalformedDropped == IsMalformed(last.message) => Dropped

\* A malformed CHUNK for a pending file id whose sequence number is stored:
\* the handler answers it before it looks at the payload.
BadPayloadOfStoredChunk ==
    /\ IsChunk(last.message)
    /\ last.message[2] \in DOMAIN last.pre.pending_files
    /\ \E q \in DictKeys(last.pre.file_chunks[last.message[2]]) :
           last.message[3] = ToString(q)

\* C15, amended: a malformed inbound message changes no global and leaves the
\* listener running; it produces no reply, except that a CHUNK for a pending
\* file id and a stored sequence number whose payload is no base64 is
\* answered ACK(file_id-seq) like any duplicate.
C15_MalformedDroppedUnlessStored ==
    IsMalformed(last.message) =>
        IF BadPayloadOfStoredChunk
        THEN /\ State("B") = last.pre
             /\ running["B"]
             /\ last.replies =
                  <<ReplyTo(<<"ACK", last.message[2] \o "-" \o last.message[3]>>)>>
        ELSE Dropped

\* A payload that is no base64 arrived for a pending file id and a sequence
\* number not yet stored, another chunk being stored.
C15_Witness ==
    /\ IsChunk(last.message)
    /\ last.message[4] = "QQ="
    /\ last.message[2] \in DOMAIN last.pre.pending_files
    /\ last.pre.file_chunks[last.message[2]] # <<>>
    /\ ~BadPayloadOfStoredChunk

\* ----------------------------------------- properties: outbound operations

\* C1: once wait_for_ack has returned a NACK for the id of a TALK, FILE, CHUNK
\* or END, the operation makes no further attempt and has returned failure.
C1_NackStopsRetries ==
    op.result = "False" => op.pc = "done" /\ op.returned = "False"

\* A stage ends in this step: the operation returns or goes on to the next one.
StageEnds ==
    /\ op.pc # "done"
    /\ op'.pc = "done" \/ op'.stage # op.stage \/ op'.seq # op.seq

\* C2: a stage (TALK, FILE, CHUNK or END) during which no ACK and no NACK for
\* its acknowledgment id is recorded makes exactly MAX_RETRIES send attempts,
\* never more, and then the operation returns failure.
C2_ExactlyMaxRetries ==
    /\ [](track.sends <= MAX_RETRIES)
    /\ [][(StageEnds /\ ~track.recorded)
            => /\ op'.pc = "done"
               /\ op'.returned = "False"
               /\ track'.sends = MAX_RETRIES]_vars

C2_Witness ==
    /\ op.stage = "END"
    /\ op.pc = "done"
    /\ ~track.recorded
    /\ track.sends = MAX_RETRIES
    /\ op.returned = "False"

\* C4: transfer_file returns success only if the receiver has processed an
\* END for the file id and found the recomputed hash equal to the declared one.
C4_SuccessImpliesVerified ==
    (op.kind = "transfer" /\ op.returned = "True") => op.id \in verified["B"]

\* C11: the text the receiver displays for a TALK is the whole text that was
\* passed to talk_to_device, spaces included.
C11_TalkTextRoundTrips ==
    op.kind = "talk" =>
        \A e \in surfaced["B"] : e.id = op.id => e.text = JoinWords(op.content)

\* C13: talk_to_device and send_file_to_device called with a target that is
\* not in known_devices return failure, send nothing, leave no record in
\* ack_received and start no attempt (no transfer thread).
C13_UnknownTargetRejected ==
    (op.kind # "none" /\ ~DictHas(known_devices["A"], op.target))
    => /\ op.pc = "done"
       /\ op.returned = "False"
       /\ op.stage = "none"
       /\ track.sends = 0
       /\ hist.sent = {}
       /\ net = {}
       /\ ack_received["A"] = <<>>

C13_Witness ==
    /\ op.kind = "transfer"
    /\ op.target = "C"
    /\ ~DictHas(known_devices["A"], "C")
    /\ op.returned = "False"

\* C14: talk_to_device returns success for message id M only if the target
\* has recorded M in received_ids and displayed its content.
C14_TalkSuccessImpliesProcessed ==
    (op.kind = "talk" /\ op.returned = "True")
    => /\ op.id \in received_ids["B"]
       /\ \E e \in surfaced["B"] : e.id = op.id

\* Success after a retransmission.
C14_Witness ==
    /\ op.kind = "talk"
    /\ op.returned = "True"
    /\ op.attempt > 1
    /\ op.id \in received_ids["B"]

\* ceil(size / CHUNK_SIZE): the least n with n * CHUNK_SIZE >= size.
CeilChunks(size) ==
    CHOOSE n \in 0..size : n * CHUNK_SIZE >= size /\ (n = 0 \/ (n - 1) * CHUNK_SIZE < size)

SentChunkSeqs == {m[3] : m \in {x \in hist.sent : x[1] = "CHUNK"}}

\* C16: a transfer of a file of size S sends CHUNK messages only for the
\* sequence numbers 0 .. ceil(S / CHUNK_SIZE) - 1, for all of them once it has
\* reached END, and each was acknowledged under its own id file_id-seq.
C16_ChunkSeqsDense ==
    op.kind = "transfer" =>
        LET n == CeilChunks(Len(op.data)) IN
        /\ SentChunkSeqs \subseteq {ToString(q) : q \in 0..(n - 1)}
        /\ \A m \in hist.sent : m[2] = op.id
        /\ op.stage = "END" =>
            /\ SentChunkSeqs = {ToString(q) : q \in 0..(n - 1)}
            /\ \A q \in 0..(n - 1) :
                  (op.id \o "-" \o ToString(q)) \in DOMAIN ack_received["A"]

C16_Witness ==
    /\ op.kind = "transfer"
    /\ op.stage = "END"
    /\ Len(op.data) = CHUNK_SIZE + 1
    /\ SentChunkSeqs = {"0", "1"}

\* The place of a stage in a transfer: FILE, the chunks in order, END.
Rank(stage, seq, size) ==
    CASE stage = "FILE" -> 0
      [] stage = "CHUNK" -> seq + 1
      [] OTHER -> CeilChunks(size) + 1

StagesBefore(stage, seq, size) ==
    {x \in {<<"FILE", 0>>} \cup {<<"CHUNK", q>> : q \in 0..(CeilChunks(size) - 1)} :
        Rank(x[1], x[2], size) < Rank(stage, seq, size)}

\* A step in which sendto accepts a text that was not sent before.
SendsNew == op.kind = "transfer" /\ hist.sent' # hist.sent

\* A message is first sent only when every stage before it was acknowledged.
StopAndWaitOrder ==
    [][SendsNew => StagesBefore(op.stage, op.seq, Len(op.data)) \subseteq hist.passed]_vars

\* C18: FILE, the chunks in ascending order and END are sent strictly one
\* after the positive acknowledgment of the other, and once a stage has failed
\* (was rejected or ran out of attempts) no message of a later stage is sent.
C18_StopAndWaitOrdered ==
    /\ StopAndWaitOrder
    /\ [][SendsNew =>
            \A r \in hist.rejected :
                Rank(r[1], r[2], Len(op.data)) >= Rank(op.stage, op.seq, Len(op.data))]_vars
    /\ [](op.returned = "False" => op.pc = "done")

\* C19: when wait_for_ack(id) returns True or False, the record of id has
\* been removed from ack_received.
C19_RecordConsumed ==
    [][(op.pc = "poll" /\ op' # op /\ op'.result \in {"True", "False"})
         => AckId(op) \notin DOMAIN ack_received'["A"]]_vars

\* C20: once running is False, an operation in flight starts no attempt after
\* the current one: when its attempt is over it stops.
C20_NoAttemptAfterShutdown ==
    [][(~running["A"] /\ op.pc # "done" /\ op'.pc # "done")
         => <<op'.stage, op'.seq, op'.attempt>> = <<op.stage, op.seq, op.attempt>>]_vars

\* ----------------------------------------------------- properties: registry

LastSeen(D) == DictGet(known_devices["B"], D).last_seen

\* D is in the registry and was last heard more than DEVICE_TIMEOUT ago.
Expired(D) == DictHas(known_devices["B"], D) /\ now - LastSeen(D) > DEVICE_TIMEOUT

\* C12: a device not heard from for longer than DEVICE_TIMEOUT is eventually
\* removed by the running sweeper (unless a heartbeat refreshes it), and after
\* a completed sweep the registry holds no device that was expired when the
\* sweep began.
C12_ExpiredEventuallyRemoved ==
    /\ \A D \in HeartbeatNames : Expired(D) ~> ~Expired(D)
    /\ [](sweep.pc = "sleep" =>
            \A D \in DictKeys(known_devices["B"]) :
                sweep.current_time - LastSeen(D) <= DEVICE_TIMEOUT)

\* The sweep that has just ended removed "A", silent for 121 s, and kept "C".
C12_Witness ==
    /\ sweep.pc = "sleep"
    /\ DictHas(sweep.devices_copy, "A")
    /\ sweep.current_time - DictGet(sweep.devices_copy, "A").last_seen = DEVICE_TIMEOUT + 1
    /\ ~DictHas(known_devices["B"], "A")
    /\ DictHas(known_devices["B"], "C")

\* C17: the sweeper removes a device only if, at the moment of removal, its
\* stored last-seen time satisfies now - last_seen > DEVICE_TIMEOUT.
C17_RemovedOnlyIfExpired ==
    [][\A D \in HeartbeatNames :
         (DictHas(known_devices["B"], D) /\ ~DictHas(known_devices'["B"], D))
         => now - LastSeen(D) > DEVICE_TIMEOUT]_vars

\* ---- properties: own name, acknowledgment race, reassembly bookkeeping ----

\* C21: the name of the local device is never a key of its known_devices: a
\* HEARTBEAT that carries the local name, from whatever source address,
\* leaves the whole state of the device as it was and answers nothing.
C21_OwnNameNeverRegistered ==
    /\ \A d \in Devices : ~DictHas(known_devices[d], d)
    /\ (last.message = <<"HEARTBEAT", "B">>
          => /\ State("B") = last.pre
             /\ last.replies = <<>>)

\* An own-name HEARTBEAT from the foreign address, handled when another
\* device is already registered.
C21_Witness ==
    /\ last.message = <<"HEARTBEAT", "B">>
    /\ last.addr # AddrOf("A")
    /\ DictHas(known_devices["B"], "A")

\* C22: an acknowledgment that the listener records for the awaited id after
\* the sendto of the current attempt is not deleted by the clearing with
\* which that attempt's wait_for_ack begins.
C22_FreshAckKept ==
    [][(op.pc = "clear" /\ op'.pc = "poll" /\ track.fresh)
         => AckId(op) \in DOMAIN ack_received'["A"]]_vars

\* C23: on every device pending_files and file_chunks have the same keys, and
\* the counter kept in pending_files for a file is the number of sequence
\* numbers stored for it in file_chunks.
C23_CounterMatchesChunks ==
    \A d \in Devices :
        /\ DOMAIN pending_files[d] = DOMAIN file_chunks[d]
        /\ \A F \in DOMAIN pending_files[d] :
              pending_files[d][F].chunks_received = Len(file_chunks[d][F])

\* A duplicate CHUNK has just been answered for a file that holds two
\* chunks.
C23_Witness ==
    /\ IsChunk(last.message)
    /\ last.message[2] \in DOMAIN last.pre.pending_files
    /\ DictHas(last.pre.file_chunks[last.message[2]], ParseInt(last.message[3]).val)
    /\ Len(file_chunks["B"][last.message[2]]) = 2
    /\ pending_files["B"][last.message[2]].chunks_received = 2

====
